---- MODULE Spec2Model ----
(***************************************************************************)
(* Ska.tdb (src/Ska/tdb/tdb.py): the version registry (module globals      *)
(* TDB_VERSION, DATA_DIR, tables, msids), the lazily loading table store   *)
(* TableDict, the TableView over one loaded table and the MsidView.        *)
(*                                                                         *)
(* Python strings are sequences of one-character strings, so that          *)
(* str.upper, str.title, the 'p{:03d}' format, item + '.npy' and           *)
(* basename[:-4] are computed character by character.  A numpy record      *)
(* array is [kind, names, rows]: kind "array" is an array of rows, kind    *)
(* "record" is one row taken out of its array (new_data[0]), held in rows  *)
(* as its only element.                                                    *)
(***************************************************************************)
EXTENDS Integers, Sequences, FiniteSets, TLC

VARIABLES TDB_VERSION, DATA_DIR, tables, msids, heldStore, held, heldVersion,
          ret

vars ==
  <<TDB_VERSION, DATA_DIR, tables, msids, heldStore, held, heldVersion, ret>>

(***************************************************************************)
(* Bounds of the model.                                                    *)
(***************************************************************************)
\* set_tdb_version calls that succeed after the one at import
MaxSwitches == 2
\* length of the keys handed to the MSID lookups and filters
MaxKeyLen == 2
\* length of the patterns handed to find
MaxPatLen == 2

(***************************************************************************)
(* Strings.                                                                *)
(***************************************************************************)
LowerAlpha ==
  <<"a","b","c","d","e","f","g","h","i","j","k","l","m",
    "n","o","p","q","r","s","t","u","v","w","x","y","z">>

UpperAlpha ==
  <<"A","B","C","D","E","F","G","H","I","J","K","L","M",
    "N","O","P","Q","R","S","T","U","V","W","X","Y","Z">>

Letters == {LowerAlpha[i] : i \in 1..26} \cup {UpperAlpha[i] : i \in 1..26}

IsLetter(c) == c \in Letters

\* the upper-case and the lower-case form of each letter
UpperOf ==
  [c \in Letters |->
     IF \E i \in 1..26 : LowerAlpha[i] = c
       THEN UpperAlpha[CHOOSE i \in 1..26 : LowerAlpha[i] = c] ELSE c]

LowerOf ==
  [c \in Letters |->
     IF \E i \in 1..26 : UpperAlpha[i] = c
       THEN LowerAlpha[CHOOSE i \in 1..26 : UpperAlpha[i] = c] ELSE c]

UpperChar(c) == IF IsLetter(c) THEN UpperOf[c] ELSE c

LowerChar(c) == IF IsLetter(c) THEN LowerOf[c] ELSE c

\* str.upper
upper(s) == [i \in 1..Len(s) |-> UpperChar(s[i])]

\* str.lower
lower(s) == [i \in 1..Len(s) |-> LowerChar(s[i])]

\* str.title: a letter that starts a word is upper-cased, the others lowered
title(s) ==
  [i \in 1..Len(s) |->
     IF i = 1 \/ ~IsLetter(s[i-1])
       THEN UpperChar(s[i]) ELSE LowerChar(s[i])]

\* all strings over the characters cs of length at most n
StringsUpTo(cs, n) == UNION {[1..k -> cs] : k \in 0..n}

DigitChars == <<"0","1","2","3","4","5","6","7","8","9">>

RECURSIVE Digits(_)
\* the decimal digits of n >= 0
Digits(n) ==
  IF n < 10 THEN <<DigitChars[n + 1]>>
  ELSE Digits(n \div 10) \o <<DigitChars[(n % 10) + 1]>>

RECURSIVE ZeroPad(_, _)
ZeroPad(s, w) == IF Len(s) >= w THEN s ELSE ZeroPad(<<"0">> \o s, w)

\* a plausible slip: 'p{:02d}'
FormatDir_width2(version) == <<"p">> \o ZeroPad(Digits(version), 2)

\* 'p{:03d}'.format(version)
FormatDir(version) == <<"p">> \o ZeroPad(Digits(version), 3)

(***************************************************************************)
(* Module constants.                                                       *)
(***************************************************************************)
TDB_VERSIONS == <<4, 6, 7, 8, 9, 10>>

DEFAULT_TDB_VERSION == 10

MSID_TABLES ==
  << <<"t","m","s","r","m","e","n","t">>, <<"t","p","c">>, <<"t","s","c">>,
     <<"t","p","p">>, <<"t","l","m","t">>, <<"t","c","n","t","r">>,
     <<"t","s","m","p","l">>, <<"t","l","o","c">> >>

TMSRMENT_COLS ==
  LET cols ==
    << <<"M","S","I","D">>,
       <<"T","E","C","H","N","I","C","A","L","_","N","A","M","E">>,
       <<"D","A","T","A","_","T","Y","P","E">>,
       <<"C","A","L","I","B","R","A","T","I","O","N","_","T","Y","P","E">>,
       <<"E","N","G","_","U","N","I","T">>,
       <<"L","O","W","_","R","A","W","_","C","O","U","N","T">>,
       <<"H","I","G","H","_","R","A","W","_","C","O","U","N","T">>,
       <<"T","O","T","A","L","_","L","E","N","G","T","H">>,
       <<"P","R","O","P">>,
       <<"C","O","U","N","T","E","R","_","M","S","I","D">>,
       <<"R","A","N","G","E","_","M","S","I","D">>,
       <<"C","A","L","I","B","R","A","T","I","O","N","_","S","W","I","T","C","H","_","M","S","I","D">>,
       <<"C","A","L","I","B","R","A","T","I","O","N","_","D","E","F","A","U","L","T","_","S","E","T","_","N","U","M">>,
       <<"L","I","M","I","T","_","S","W","I","T","C","H","_","M","S","I","D">>,
       <<"L","I","M","I","T","_","D","E","F","A","U","L","T","_","S","E","T","_","N","U","M">>,
       <<"E","S","_","S","W","I","T","C","H","_","M","S","I","D">>,
       <<"E","S","_","D","E","F","A","U","L","T","_","S","E","T","_","N","U","M">>,
       <<"O","W","N","E","R","_","I","D">>,
       <<"D","E","S","C","R","I","P","T","I","O","N">>,
       <<"E","H","S","_","H","E","A","D","E","R","_","F","L","A","G">> >>
  IN [i \in 1..Len(cols) |-> lower(cols[i])]

TMSRMENT == MSID_TABLES[1]
TSC == MSID_TABLES[3]
TPP == MSID_TABLES[4]
COL_MSID == <<"M","S","I","D">>
COL_TECHNICAL_NAME == <<"T","E","C","H","N","I","C","A","L","_","N","A","M","E">>
COL_DESCRIPTION == <<"D","E","S","C","R","I","P","T","I","O","N">>
COL_STATE_CODE == <<"S","T","A","T","E","_","C","O","D","E">>
COL_RAW == <<"R","A","W">>
NPY == <<".","n","p","y">>

SeqToSet(s) == {s[i] : i \in 1..Len(s)}

(***************************************************************************)
(* The files under data/: the record arrays a build of the package ships.  *)
(* Three data sets over the six version directories.  MSID codes are       *)
(* stored upper-cased and collide with no column name; a masked string     *)
(* field is MASKED.                                                        *)
(***************************************************************************)
MASKED == <<"--">>

Array(names, rows) == [kind |-> "array", names |-> names, rows |-> rows]

Tmsrment_A ==
  Array(<<COL_MSID, COL_TECHNICAL_NAME, COL_DESCRIPTION>>,
        << <<<<"A","A">>, <<"c">>, <<"a","b">>>>,
           <<<<"B","C">>, MASKED, <<"B","a">>>> >>)

Tmsrment_B ==
  Array(<<COL_MSID, COL_TECHNICAL_NAME, COL_DESCRIPTION>>,
        << <<<<"A","A">>, <<"c">>, <<"a","b">>>>,
           <<<<"B","C">>, MASKED, <<"B","a">>>>,
           <<<<"C","B">>, <<"a","B">>, MASKED>> >>)

Tsc_A ==
  Array(<<COL_MSID, COL_STATE_CODE>>,
        << <<<<"A","A">>, <<"O","N">>>>,
           <<<<"A","A">>, <<"O","F","F">>>> >>)

Tsc_B ==
  Array(<<COL_MSID, COL_STATE_CODE>>,
        << <<<<"A","A">>, <<"O","N">>>>,
           <<<<"C","B">>, <<"X">>>>,
           <<<<"A","A">>, <<"O","F","F">>>> >>)

Tpp_B ==
  Array(<<COL_MSID, COL_RAW>>,
        << <<<<"B","C">>, <<"1">>>> >>)

Tpp_C ==
  Array(<<COL_MSID, COL_RAW>>,
        << <<<<"B","C">>, <<"1">>>>,
           <<<<"A","A">>, <<"3">>>>,
           <<<<"B","C">>, <<"2">>>> >>)

README == <<"r","e","a","d","m","e",".","t","x","t">>

Dir_A ==
  ((TMSRMENT \o NPY) :> Tmsrment_A) @@ ((TSC \o NPY) :> Tsc_A)
    @@ (README :> [kind |-> "text"])

Dir_B ==
  ((TMSRMENT \o NPY) :> Tmsrment_B) @@ ((TSC \o NPY) :> Tsc_B)
    @@ ((TPP \o NPY) :> Tpp_B) @@ (README :> [kind |-> "text"])

Dir_C ==
  ((TMSRMENT \o NPY) :> Tmsrment_B) @@ ((TSC \o NPY) :> Tsc_B)
    @@ ((TPP \o NPY) :> Tpp_C) @@ (README :> [kind |-> "text"])

\* os.path.dirname(os.path.abspath(__file__)): the package directory
PKG_DIR == << <<"t","d","b">> >>

DATA == <<"d","a","t","a">>

\* the directories on disk, each a mapping from file name to content
FS ==
  (PKG_DIR \o <<DATA, <<"p","0","0","4">>>> :> Dir_A)
  @@ (PKG_DIR \o <<DATA, <<"p","0","0","6">>>> :> Dir_A)
  @@ (PKG_DIR \o <<DATA, <<"p","0","0","7">>>> :> Dir_B)
  @@ (PKG_DIR \o <<DATA, <<"p","0","0","8">>>> :> Dir_B)
  @@ (PKG_DIR \o <<DATA, <<"p","0","0","9">>>> :> Dir_C)
  @@ (PKG_DIR \o <<DATA, <<"p","0","1","0">>>> :> Dir_C)

(***************************************************************************)
(* Python values.                                                          *)
(***************************************************************************)
None == [kind |-> "None"]

\* a column of an array, a field of a record, a Python int, a Python list,
\* a tuple of names, the names glob gives (in no fixed order)
Column(vals) == [kind |-> "column", vals |-> vals]

Scalar(val) == [kind |-> "scalar", val |-> val]

PyInt(n) == [kind |-> "int", n |-> n]

List(items) == [kind |-> "list", items |-> items]

Names(items) == [kind |-> "names", items |-> items]

NameSet(items) == [kind |-> "nameset", items |-> items]

\* TableView.__init__
TableView(data) == [kind |-> "TableView", data |-> data]

\* MsidView() is bound to no MSID (self._msid is None)
NoMsid == <<"None">>

\* MsidView.__init__; root is the number of the registry switch that made
\* the view the registry's root, 0 for any other view
MsidView(msid, root) == [kind |-> "MsidView", _msid |-> msid, root |-> root]

\* truth value of self._msid: None and '' are false
Truthy(msid) == msid # NoMsid /\ msid # <<>>

\* what an operation hands back: a value, or the exception it raised
Return(val) == [exc |-> "none", val |-> val]

Raise(exc) == [exc |-> exc, val |-> None]

(***************************************************************************)
(* numpy.                                                                  *)
(***************************************************************************)
\* os.path.join(dir, name)
PathJoin(dir, name) == Append(dir, name)

\* np.load(filename): the array in the file, or IOError when there is none
np_load(filename) ==
  LET dir == SubSeq(filename, 1, Len(filename) - 1)
      base == filename[Len(filename)]
  IN IF dir \in DOMAIN FS /\ base \in DOMAIN FS[dir]
       THEN Return(FS[dir][base])
       ELSE Raise("IOError")

\* position of a field name in dtype.names
FieldIndex(names, name) == CHOOSE i \in 1..Len(names) : names[i] = name

\* data[name] for a field name of the dtype
FieldOf(data, name) ==
  LET k == FieldIndex(data.names, name)
  IN IF data.kind = "record"
       THEN Scalar(data.rows[1][k])
       ELSE Column([i \in 1..Len(data.rows) |-> data.rows[i][k]])

RECURSIVE SelectRows(_, _)
\* rows[ok]: the rows whose mask entry is true, in their order
SelectRows(rows, ok) ==
  IF rows = <<>> THEN <<>>
  ELSE (IF Head(ok) THEN <<Head(rows)>> ELSE <<>>)
         \o SelectRows(Tail(rows), Tail(ok))

\* column.filled(''): a masked entry becomes the empty string
filled(col) ==
  Column([i \in 1..Len(col.vals) |->
            IF col.vals[i] = MASKED THEN <<>> ELSE col.vals[i]])

\* x in column
InColumn(x, col) == \E i \in 1..Len(col.vals) : col.vals[i] = x

\* re.compile(match, re.IGNORECASE).search(x) is not None, for a pattern of
\* literal characters and the wildcard "."
re_search(match, x) ==
  \E i \in 0..(Len(x) - Len(match)) :
     \A j \in 1..Len(match) :
        match[j] = "." \/ LowerChar(match[j]) = LowerChar(x[i + j])

(***************************************************************************)
(* TableView.                                                              *)
(***************************************************************************)
\* TableView.__getitem__ for a string item and array data (a record is only
\* asked for its fields)
TableView_getitem(self, item) ==
  LET key == upper(item)
      names == SeqToSet(self.data.names)
  IN IF key \notin names /\ COL_MSID \in names
       THEN LET msidcol == FieldOf(self.data, COL_MSID).vals
                ok == [i \in 1..Len(msidcol) |-> msidcol[i] = key]
                new_data == SelectRows(self.data.rows, ok)
            IN IF Len(new_data) = 1
                 THEN Return(TableView([kind |-> "record",
                                        names |-> self.data.names,
                                        rows |-> new_data]))
                 ELSE Return(TableView(Array(self.data.names, new_data)))
       ELSE IF key \in names THEN Return(FieldOf(self.data, key))
       ELSE Raise("ValueError")

\* TableView.colnames
TableView_colnames(self) == self.data.names

\* TableView.__len__: the values len(self.data) can give.  An array has its
\* number of rows.  A record taken out of an array is a numpy void or a
\* masked void: len() of it is its number of fields where the type defines
\* a length, and raises TypeError (so that 1 is returned) where it does not.
TableView_len(self) ==
  IF self.data.kind = "record"
    THEN {Len(self.data.names), 1}
    ELSE {Len(self.data.rows)}

(***************************************************************************)
(* TableDict: a dict from table name to TableView.                         *)
(***************************************************************************)
EmptyDict == [n \in {} |-> None]

\* a plausible slip: the file is loaded on every lookup
TableDict_getitem_reload(self, item, dataDir) ==
  LET loaded == np_load(PathJoin(dataDir, item \o NPY))
  IN IF loaded.exc = "IOError"
       THEN [exc |-> "KeyError", val |-> None, dict |-> self, loads |-> 1]
       ELSE [exc |-> "none", val |-> TableView(loaded.val),
             dict |-> [n \in DOMAIN self \cup {item} |->
                         IF n = item THEN TableView(loaded.val) ELSE self[n]],
             loads |-> 1]

\* a plausible slip: the failed lookup leaves an entry behind
TableDict_getitem_cacheMiss(self, item, dataDir) ==
  IF item \notin DOMAIN self
    THEN LET loaded == np_load(PathJoin(dataDir, item \o NPY))
         IN IF loaded.exc = "IOError"
              THEN [exc |-> "KeyError", val |-> None,
                    dict |-> [n \in DOMAIN self \cup {item} |->
                                IF n = item THEN None ELSE self[n]],
                    loads |-> 1]
              ELSE [exc |-> "none", val |-> TableView(loaded.val),
                    dict |-> [n \in DOMAIN self \cup {item} |->
                                IF n = item THEN TableView(loaded.val)
                                ELSE self[n]],
                    loads |-> 1]
    ELSE [exc |-> (IF self[item] = None THEN "KeyError" ELSE "none"),
          val |-> self[item], dict |-> self, loads |-> 0]

\* TableDict.__getitem__ with DATA_DIR = dataDir: the value or the KeyError,
\* the dict afterwards and the number of np.load calls made
TableDict_getitem(self, item, dataDir) ==
  IF item \notin DOMAIN self
    THEN LET loaded == np_load(PathJoin(dataDir, item \o NPY))
         IN IF loaded.exc = "IOError"
              THEN [exc |-> "KeyError", val |-> None, dict |-> self,
                    loads |-> 1]
              ELSE [exc |-> "none", val |-> TableView(loaded.val),
                    dict |-> [n \in DOMAIN self \cup {item} |->
                                IF n = item THEN TableView(loaded.val)
                                ELSE self[n]],
                    loads |-> 1]
    ELSE [exc |-> "none", val |-> self[item], dict |-> self, loads |-> 0]

\* glob.glob(os.path.join(dir, '*.npy')): "*" matches no leading dot
Glob_npy(dir) ==
  IF dir \notin DOMAIN FS THEN {}
  ELSE {f \in DOMAIN FS[dir] :
          /\ Len(f) >= Len(NPY)
          /\ SubSeq(f, Len(f) - Len(NPY) + 1, Len(f)) = NPY
          /\ f[1] # "."}

\* a plausible slip: the extension is left on the name
TableDict_keys_withExt(dataDir) == Glob_npy(dataDir)

\* TableDict.keys with DATA_DIR = dataDir: os.path.basename(x)[:-4]
TableDict_keys(dataDir) ==
  {SubSeq(f, 1, Len(f) - 4) : f \in Glob_npy(dataDir)}

(***************************************************************************)
(* MsidView.  The methods read the module globals tables, msids and        *)
(* DATA_DIR when they are called: dict is the dict of the registry's       *)
(* current tables, dataDir the current DATA_DIR, root the current msids.   *)
(* Each gives the value or the exception and the dict afterwards.          *)
(***************************************************************************)
Outcome(exc, val, dict) == [exc |-> exc, val |-> val, dict |-> dict]

\* a plausible slip: membership is tested on the key as typed
MsidView_getitem_noUpper(self, item, dict, dataDir) ==
  LET t == TableDict_getitem(dict, TMSRMENT, dataDir)
  IN IF t.exc # "none" THEN Outcome("KeyError", None, t.dict)
     ELSE LET c == TableView_getitem(t.val, COL_MSID)
          IN IF c.exc # "none" THEN Outcome(c.exc, None, t.dict)
             ELSE IF InColumn(item, c.val)
               THEN Outcome("none", MsidView(item, 0), t.dict)
               ELSE Outcome("KeyError", None, t.dict)

\* MsidView.__getitem__
MsidView_getitem(self, item, dict, dataDir) ==
  LET t == TableDict_getitem(dict, TMSRMENT, dataDir)
  IN IF t.exc # "none" THEN Outcome("KeyError", None, t.dict)
     ELSE LET c == TableView_getitem(t.val, COL_MSID)
          IN IF c.exc # "none" THEN Outcome(c.exc, None, t.dict)
             ELSE IF InColumn(upper(item), c.val)
               THEN Outcome("none", MsidView(item, 0), t.dict)
               ELSE Outcome("KeyError", None, t.dict)

\* len(val) for what tables[tablename][self._msid] gives
PyLen(val) ==
  IF val.kind = "TableView" THEN TableView_len(val)
  ELSE IF val.kind = "column" THEN {Len(val.vals)}
  ELSE {Len(val.val)}

\* a plausible slip: the empty result is handed back as it is
get_table_func_noNone(tablename, self, dict, dataDir) ==
  LET t == TableDict_getitem(dict, tablename, dataDir)
  IN IF t.exc # "none" THEN {Outcome("KeyError", None, t.dict)}
     ELSE IF Truthy(self._msid)
       THEN LET v == TableView_getitem(t.val, self._msid)
            IN {Outcome(v.exc, v.val, t.dict)}
       ELSE {Outcome("none", t.val, t.dict)}

\* MsidView._get_table_func(tablename)(self): the outcomes the call can have
get_table_func(tablename, self, dict, dataDir) ==
  LET t == TableDict_getitem(dict, tablename, dataDir)
  IN IF t.exc # "none" THEN {Outcome("KeyError", None, t.dict)}
     ELSE IF Truthy(self._msid)
       THEN LET v == TableView_getitem(t.val, self._msid)
            IN IF v.exc # "none" THEN {Outcome(v.exc, None, t.dict)}
               ELSE {Outcome("none", IF n = 0 THEN None ELSE v.val, t.dict) :
                       n \in PyLen(v.val)}
       ELSE {Outcome("none", t.val, t.dict)}

\* MsidView._get_tmsrment_func(tmsrment_col)(self)
get_tmsrment_func(tmsrment_col, self, dict, dataDir) ==
  LET t == TableDict_getitem(dict, TMSRMENT, dataDir)
  IN IF t.exc # "none" THEN Outcome("KeyError", None, t.dict)
     ELSE IF Truthy(self._msid)
       THEN LET v == TableView_getitem(t.val, self._msid)
            IN IF v.exc # "none" THEN Outcome(v.exc, None, t.dict)
               ELSE IF v.val.kind # "TableView"
                 THEN Outcome("IndexError", None, t.dict)
               ELSE LET c == TableView_getitem(v.val, tmsrment_col)
                    IN Outcome(c.exc, c.val, t.dict)
       ELSE LET c == TableView_getitem(t.val, tmsrment_col)
            IN Outcome(c.exc, c.val, t.dict)

\* the class properties set up by MsidView.__init__
TableProperties == {title(MSID_TABLES[i]) : i \in 1..Len(MSID_TABLES)}

TableOfProperty(attr) ==
  MSID_TABLES[CHOOSE i \in 1..Len(MSID_TABLES) : title(MSID_TABLES[i]) = attr]

ColumnProperties == SeqToSet(TMSRMENT_COLS)

\* the value of an expression that is evaluated once and then used under a
\* name, as a Python local is: Only({body : x \in {expression}})
Only(S) == CHOOSE x \in S : TRUE

RECURSIVE LookupAll(_, _, _, _)
\* [msids[x] for x in codes]
LookupAll(codes, root, dict, dataDir) ==
  IF codes = <<>> THEN Outcome("none", <<>>, dict)
  ELSE Only({
         IF one.exc # "none" THEN one
         ELSE Only({
                IF rest.exc # "none" THEN rest
                ELSE Outcome("none", <<one.val>> \o rest.val, rest.dict)
                : rest \in {LookupAll(Tail(codes), root, one.dict, dataDir)}})
         : one \in {MsidView_getitem(root, Head(codes), dict, dataDir)}})

\* return [msids[x] for x in tables['tmsrment']['MSID'][ok]]
FindViews(ok, root, dict, dataDir) ==
  Only({
    Only({
      Only({
        IF views.exc # "none" THEN views
        ELSE Outcome("none", List(views.val), views.dict)
        : views \in {LookupAll(codes, root, t.dict, dataDir)}})
      : codes \in {SelectRows(FieldOf(t.val.data, COL_MSID).vals, ok)}})
    : t \in {TableDict_getitem(dict, TMSRMENT, dataDir)}})

\* a plausible slip: the technical name is not searched
MsidView_find_noTechName(self, match, root, dict, dataDir) ==
  Only({
    Only({
      IF c0.exc # "none" \/ c1.exc # "none"
        THEN Outcome("KeyError", None, c1.dict)
      ELSE Only({
             FindViews(ok, root, c1.dict, dataDir)
             : ok \in {[i \in 1..Len(c0.val.vals) |->
                          \/ re_search(match, c0.val.vals[i])
                          \/ re_search(match, filled(c1.val).vals[i])]}})
      : c1 \in {get_tmsrment_func(lower(COL_DESCRIPTION), root, c0.dict,
                                  dataDir)}})
    : c0 \in {get_tmsrment_func(lower(COL_MSID), root, dict, dataDir)}})

\* MsidView.find; the properties msid, description and technical_name are
\* read on the module global msids, not on self
MsidView_find(self, match, root, dict, dataDir) ==
  Only({
    Only({
      Only({
        IF c0.exc # "none" \/ c1.exc # "none" \/ c2.exc # "none"
          THEN Outcome("KeyError", None, c2.dict)
        ELSE IF Len(c0.val.vals) = 0
          \* np.array([]) is an array of floats, which "|" rejects
          THEN Outcome("TypeError", None, c2.dict)
        ELSE Only({
               FindViews(ok, root, c2.dict, dataDir)
               : ok \in {[i \in 1..Len(c0.val.vals) |->
                            \/ re_search(match, c0.val.vals[i])
                            \/ re_search(match, filled(c1.val).vals[i])
                            \/ re_search(match, filled(c2.val).vals[i])]}})
        : c2 \in {get_tmsrment_func(lower(COL_TECHNICAL_NAME), root, c1.dict,
                                    dataDir)}})
      : c1 \in {get_tmsrment_func(lower(COL_DESCRIPTION), root, c0.dict,
                                  dataDir)}})
    : c0 \in {get_tmsrment_func(lower(COL_MSID), root, dict, dataDir)}})

(***************************************************************************)
(* State.  tables is the module global: the TableDict made by the last     *)
(* switch, numbered sid.  msids is the module global MsidView().           *)
(* heldStore is a reference to a TableDict the caller kept (t = tdb.tables):*)
(* "alias" while that dict is still the registry's, "stale" with the dict   *)
(* itself, and the version it was filled under, once the registry has      *)
(* switched away from it.  held is a TableView or MsidView the caller      *)
(* kept and heldVersion the version that was active when it was obtained.  *)
(* ret is the outcome of the call                                          *)
(* that has just returned: the operation, the reference it was called      *)
(* through, its argument, the exception or the value, and the number of    *)
(* np.load calls it made; it is Idle once the caller has taken the result. *)
(***************************************************************************)
NoStore == [k |-> "none", sid |-> 0, dict |-> EmptyDict, version |-> 0]

AliasStore == [k |-> "alias", sid |-> 0, dict |-> EmptyDict, version |-> 0]

StaleStore(store, version) ==
  [k |-> "stale", sid |-> store.sid, dict |-> store.dict,
   version |-> version]

Ret(op, via, arg, exc, val, loads) ==
  [op |-> op, via |-> via, arg |-> arg, exc |-> exc, val |-> val,
   loads |-> loads]

Idle == Ret("idle", "", <<>>, "none", None, 0)

\* the data directory of a version
DataDirOf(version) == PathJoin(PathJoin(PKG_DIR, DATA), FormatDir(version))

\* the dict behind a reference to a table store
DictOf(via) ==
  IF via = "tables" \/ heldStore.k = "alias" THEN tables.dict
  ELSE heldStore.dict

\* the stores after the dict behind via has become dict: the new values of
\* tables and heldStore
StoresWith(via, dict) ==
  IF via = "tables" \/ heldStore.k = "alias"
    THEN <<[tables EXCEPT !.dict = dict], heldStore>>
    ELSE <<tables, [heldStore EXCEPT !.dict = dict]>>

(***************************************************************************)
(* Inputs.                                                                 *)
(***************************************************************************)
VersionInputs == 3..11

\* the versions switched to where the calls on views are explored
SwitchInputs == {4, 5, 8}

NOSUCH == <<"n","o","s","u","c","h">>

TableNameInputs == {TMSRMENT, TSC, TPP, NOSUCH}

KeyInputs == StringsUpTo({"a", "A", "b", "C"}, MaxKeyLen)

ColumnInputs ==
  {COL_MSID, lower(COL_MSID), lower(COL_STATE_CODE), title(COL_DESCRIPTION)}

\* the columns the data sets hold, as the properties name them
ColumnAttrInputs ==
  {lower(COL_MSID), lower(COL_TECHNICAL_NAME), lower(COL_DESCRIPTION)}

PatternInputs == StringsUpTo({"a", "B", "."}, MaxPatLen)

(***************************************************************************)
(* The registry.                                                           *)
(***************************************************************************)
\* the module body: globals set to 10 and None, then
\* set_tdb_version(TDB_VERSION) on line 234
Init ==
  /\ TDB_VERSION = DEFAULT_TDB_VERSION
  /\ DATA_DIR = DataDirOf(DEFAULT_TDB_VERSION)
  /\ tables = [sid |-> 1, dict |-> EmptyDict]
  /\ msids = MsidView(NoMsid, 1)
  /\ heldStore = NoStore
  /\ held = None
  /\ heldVersion = 0
  /\ ret = Idle

\* a plausible slip: the globals are assigned before the version is checked
set_tdb_version_assignFirst(version) ==
  /\ ret.op = "idle"
  /\ tables.sid <= MaxSwitches
  /\ TDB_VERSION' = version
  /\ DATA_DIR' = DataDirOf(version)
  /\ tables' = [sid |-> tables.sid + 1, dict |-> EmptyDict]
  /\ msids' = MsidView(NoMsid, tables.sid + 1)
  /\ heldStore' = IF heldStore.k = "alias"
                              THEN StaleStore(tables, TDB_VERSION)
                  ELSE heldStore
  /\ ret' = IF version \notin SeqToSet(TDB_VERSIONS)
              THEN Ret("set_tdb_version", "module", version, "ValueError",
                       None, 0)
              ELSE Ret("set_tdb_version", "module", version, "none", None, 0)
  /\ UNCHANGED <<held, heldVersion>>

\* a plausible slip: the table store is kept when the version is the same
set_tdb_version_keepSame(version) ==
  /\ ret.op = "idle"
  /\ IF version \notin SeqToSet(TDB_VERSIONS)
       THEN /\ ret' = Ret("set_tdb_version", "module", version, "ValueError",
                          None, 0)
            /\ UNCHANGED <<TDB_VERSION, DATA_DIR, tables, msids, heldStore,
                           held, heldVersion>>
       ELSE /\ tables.sid <= MaxSwitches
            /\ TDB_VERSION' = version
            /\ DATA_DIR' = DataDirOf(version)
            /\ tables' = IF version = TDB_VERSION
                           THEN [tables EXCEPT !.sid = @ + 1]
                           ELSE [sid |-> tables.sid + 1, dict |-> EmptyDict]
            /\ msids' = MsidView(NoMsid, tables.sid + 1)
            /\ heldStore' = IF heldStore.k = "alias"
                              THEN StaleStore(tables, TDB_VERSION)
                            ELSE heldStore
            /\ ret' = Ret("set_tdb_version", "module", version, "none",
                          None, 0)
            /\ UNCHANGED <<held, heldVersion>>

\* set_tdb_version(version)
set_tdb_version(version) ==
  /\ ret.op = "idle"
  /\ IF version \notin SeqToSet(TDB_VERSIONS)
       THEN /\ ret' = Ret("set_tdb_version", "module", version, "ValueError",
                          None, 0)
            /\ UNCHANGED <<TDB_VERSION, DATA_DIR, tables, msids, heldStore,
                           held, heldVersion>>
       ELSE /\ tables.sid <= MaxSwitches
            /\ TDB_VERSION' = version
            /\ DATA_DIR' = DataDirOf(TDB_VERSION')
            /\ tables' = [sid |-> tables.sid + 1, dict |-> EmptyDict]
            /\ msids' = MsidView(NoMsid, tables.sid + 1)
            /\ heldStore' = IF heldStore.k = "alias"
                              THEN StaleStore(tables, TDB_VERSION)
                            ELSE heldStore
            /\ ret' = Ret("set_tdb_version", "module", version, "none",
                          None, 0)
            /\ UNCHANGED <<held, heldVersion>>

\* get_tdb_version()
get_tdb_version ==
  /\ ret.op = "idle"
  /\ ret' = Ret("get_tdb_version", "module", <<>>, "none",
                PyInt(TDB_VERSION), 0)
  /\ UNCHANGED <<TDB_VERSION, DATA_DIR, tables, msids, heldStore, held, heldVersion>>

(***************************************************************************)
(* The caller: what it does with a result and the references it keeps.     *)
(***************************************************************************)
\* t = tdb.tables
HoldStore ==
  /\ ret.op = "idle"
  /\ heldStore.k # "alias"
  /\ heldStore' = AliasStore
  /\ UNCHANGED <<TDB_VERSION, DATA_DIR, tables, msids, held, heldVersion, ret>>

\* v = tdb.msids
KeepRoot ==
  /\ ret.op = "idle"
  /\ held # msids
  /\ held' = msids
  /\ heldVersion' = TDB_VERSION
  /\ UNCHANGED <<TDB_VERSION, DATA_DIR, tables, msids, heldStore, ret>>

\* v = <the view the call returned>, or one of the views of its list
Keep ==
  /\ ret.op # "idle"
  /\ ret.exc = "none"
  /\ \/ /\ ret.val.kind \in {"TableView", "MsidView"}
        /\ held' = ret.val
     \/ /\ ret.val.kind = "list"
        /\ \E i \in 1..Len(ret.val.items) : held' = ret.val.items[i]
  /\ heldVersion' = TDB_VERSION
  /\ ret' = Idle
  /\ UNCHANGED <<TDB_VERSION, DATA_DIR, tables, msids, heldStore>>

\* the result, or the exception, is dropped
Discard ==
  /\ ret.op # "idle"
  /\ ret' = Idle
  /\ UNCHANGED <<TDB_VERSION, DATA_DIR, tables, msids, heldStore, held, heldVersion>>

(***************************************************************************)
(* Calls on a table store: tdb.tables (via "tables") or the kept one.      *)
(***************************************************************************)
Vias == {"tables", "held"}

\* store[item]
Store_getitem(via, item) ==
  /\ ret.op = "idle"
  /\ via = "held" => heldStore.k # "none"
  /\ LET r == TableDict_getitem(DictOf(via), item, DATA_DIR)
         s == StoresWith(via, r.dict)
     IN /\ tables' = s[1]
        /\ heldStore' = s[2]
        /\ ret' = Ret("getitem", via, item, r.exc, r.val, r.loads)
  /\ UNCHANGED <<TDB_VERSION, DATA_DIR, msids, held, heldVersion>>

\* store.keys(); glob gives the names in no fixed order
Store_keys(via) ==
  /\ ret.op = "idle"
  /\ via = "held" => heldStore.k # "none"
  /\ ret' = Ret("keys", via, <<>>, "none",
                NameSet(TableDict_keys(DATA_DIR)), 0)
  /\ UNCHANGED <<TDB_VERSION, DATA_DIR, tables, msids, heldStore, held, heldVersion>>

(***************************************************************************)
(* Calls on the kept TableView.                                            *)
(***************************************************************************)
\* held[item]
View_getitem(item) ==
  /\ ret.op = "idle"
  /\ held.kind = "TableView"
  /\ held.data.kind = "record" => upper(item) \in SeqToSet(held.data.names)
  /\ LET r == TableView_getitem(held, item)
     IN ret' = Ret("view_getitem", "held", item, r.exc, r.val, 0)
  /\ UNCHANGED <<TDB_VERSION, DATA_DIR, tables, msids, heldStore, held, heldVersion>>

\* len(held)
View_len ==
  /\ ret.op = "idle"
  /\ held.kind = "TableView"
  /\ \E n \in TableView_len(held) :
        ret' = Ret("view_len", "held", <<>>, "none", PyInt(n), 0)
  /\ UNCHANGED <<TDB_VERSION, DATA_DIR, tables, msids, heldStore, held, heldVersion>>

\* held.colnames
View_colnames ==
  /\ ret.op = "idle"
  /\ held.kind = "TableView"
  /\ ret' = Ret("view_colnames", "held", <<>>, "none",
                Names(TableView_colnames(held)), 0)
  /\ UNCHANGED <<TDB_VERSION, DATA_DIR, tables, msids, heldStore, held, heldVersion>>

(***************************************************************************)
(* Calls on an MsidView: tdb.msids (via "msids") or the kept one.  They    *)
(* load through the module global tables.                                  *)
(***************************************************************************)
MsidVias == {"msids", "held"}

SelfOf(via) == IF via = "msids" THEN msids ELSE held

\* view[item]
Msid_getitem(via, item) ==
  /\ ret.op = "idle"
  /\ SelfOf(via).kind = "MsidView"
  /\ LET r == MsidView_getitem(SelfOf(via), item, tables.dict, DATA_DIR)
     IN /\ tables' = [tables EXCEPT !.dict = r.dict]
        /\ ret' = Ret("msid_getitem", via, item, r.exc, r.val, 0)
  /\ UNCHANGED <<TDB_VERSION, DATA_DIR, msids, heldStore, held, heldVersion>>

\* view.Tmsrment, view.Tsc, ...
Msid_table(via, attr) ==
  /\ ret.op = "idle"
  /\ SelfOf(via).kind = "MsidView"
  /\ attr \in TableProperties
  /\ \E r \in get_table_func(TableOfProperty(attr), SelfOf(via), tables.dict,
                             DATA_DIR) :
        /\ tables' = [tables EXCEPT !.dict = r.dict]
        /\ ret' = Ret("msid_table", via, TableOfProperty(attr), r.exc,
                      r.val, 0)
  /\ UNCHANGED <<TDB_VERSION, DATA_DIR, msids, heldStore, held, heldVersion>>

\* view.msid, view.description, ...
Msid_column(via, attr) ==
  /\ ret.op = "idle"
  /\ SelfOf(via).kind = "MsidView"
  /\ attr \in ColumnProperties
  /\ LET r == get_tmsrment_func(attr, SelfOf(via), tables.dict, DATA_DIR)
     IN /\ tables' = [tables EXCEPT !.dict = r.dict]
        /\ ret' = Ret("msid_column", via, attr, r.exc, r.val, 0)
  /\ UNCHANGED <<TDB_VERSION, DATA_DIR, msids, heldStore, held, heldVersion>>

\* view.find(match)
Msid_find(via, match) ==
  /\ ret.op = "idle"
  /\ SelfOf(via).kind = "MsidView"
  /\ \E r \in {MsidView_find(SelfOf(via), match, msids, tables.dict,
                             DATA_DIR)} :
        /\ tables' = [tables EXCEPT !.dict = r.dict]
        /\ ret' = Ret("msid_find", via, match, r.exc, r.val, 0)
  /\ UNCHANGED <<TDB_VERSION, DATA_DIR, msids, heldStore, held, heldVersion>>

(***************************************************************************)
(* Specifications.  Next is the whole program under every input; the       *)
(* properties are checked on its parts: the registry and the table store   *)
(* (SpecStore), the TableView (SpecView), the MsidView (SpecMsid), find    *)
(* (SpecFind) and the references kept across a switch (SpecHandles).       *)
(***************************************************************************)
Next ==
  \/ \E version \in VersionInputs : set_tdb_version(version)
  \/ get_tdb_version
  \/ HoldStore
  \/ KeepRoot
  \/ Keep
  \/ Discard
  \/ \E via \in Vias, item \in TableNameInputs : Store_getitem(via, item)
  \/ \E via \in Vias : Store_keys(via)
  \/ \E item \in KeyInputs \cup ColumnInputs : View_getitem(item)
  \/ View_len
  \/ View_colnames
  \/ \E via \in MsidVias, item \in KeyInputs : Msid_getitem(via, item)
  \/ \E via \in MsidVias, attr \in TableProperties : Msid_table(via, attr)
  \/ \E via \in MsidVias, attr \in ColumnAttrInputs : Msid_column(via, attr)
  \/ \E via \in MsidVias, match \in PatternInputs : Msid_find(via, match)

Spec == Init /\ [][Next]_vars

NextStore ==
  \/ \E version \in VersionInputs : set_tdb_version(version)
  \/ get_tdb_version
  \/ HoldStore
  \/ Discard
  \/ \E via \in Vias, item \in TableNameInputs : Store_getitem(via, item)
  \/ \E via \in Vias : Store_keys(via)

SpecStore == Init /\ [][NextStore]_vars

NextView ==
  \/ \E version \in SwitchInputs : set_tdb_version(version)
  \/ Keep
  \/ Discard
  \/ \E item \in TableNameInputs : Store_getitem("tables", item)
  \/ \E item \in KeyInputs \cup ColumnInputs : View_getitem(item)
  \/ View_len
  \/ View_colnames

SpecView == Init /\ [][NextView]_vars

NextMsid ==
  \/ \E version \in SwitchInputs : set_tdb_version(version)
  \/ KeepRoot
  \/ Keep
  \/ Discard
  \/ \E via \in MsidVias, item \in KeyInputs : Msid_getitem(via, item)
  \/ \E via \in MsidVias, attr \in TableProperties : Msid_table(via, attr)
  \/ \E via \in MsidVias, attr \in ColumnAttrInputs : Msid_column(via, attr)

SpecMsid == Init /\ [][NextMsid]_vars

NextFind ==
  \/ \E version \in SwitchInputs : set_tdb_version(version)
  \/ Keep
  \/ Discard
  \/ \E via \in MsidVias, match \in PatternInputs : Msid_find(via, match)

SpecFind == Init /\ [][NextFind]_vars

\* the keys and tables used where references are kept across a switch
HandleKeyInputs == {<<"a", "A">>, <<"C", "b">>, <<"b", "b">>}

HandleTableInputs == {TSC, TPP}

NextHandles ==
  \/ \E version \in SwitchInputs : set_tdb_version(version)
  \/ HoldStore
  \/ Keep
  \/ Discard
  \/ \E via \in Vias, item \in HandleTableInputs : Store_getitem(via, item)
  \/ \E item \in HandleKeyInputs : View_getitem(item)
  \/ \E item \in HandleKeyInputs : Msid_getitem("msids", item)
  \/ \E via \in MsidVias, item \in HandleTableInputs :
        Msid_table(via, title(item))

SpecHandles == Init /\ [][NextHandles]_vars

(***************************************************************************)
(* Properties.  What the files hold is read from FS directly.              *)
(***************************************************************************)
\* the directory name of each supported version
VersionDirName ==
  (4 :> <<"p","0","0","4">>) @@ (6 :> <<"p","0","0","6">>)
  @@ (7 :> <<"p","0","0","7">>) @@ (8 :> <<"p","0","0","8">>)
  @@ (9 :> <<"p","0","0","9">>) @@ (10 :> <<"p","0","1","0">>)

Supported == DOMAIN VersionDirName

DirOfVersion(v) == PKG_DIR \o <<DATA, VersionDirName[v]>>

HasFile(dir, name) == (name \o NPY) \in DOMAIN FS[dir]

FileData(dir, name) == FS[dir][name \o NPY]

\* the state of the registry
Registry == <<TDB_VERSION, DATA_DIR, tables, msids>>

\* C1: set_version(v) with v outside the supported versions fails with the
\* invalid-version error (ValueError) and changes nothing: the version, the
\* data directory, the table store and its cache, the MSID root and every
\* kept reference are what they were before the call.
C1_InvalidVersionChangesNothing ==
  [][(/\ ret.op = "idle"
      /\ ret'.op = "set_tdb_version"
      /\ ret'.arg \notin Supported)
     => /\ ret'.exc = "ValueError"
        /\ UNCHANGED <<Registry, heldStore, held>>]_vars

\* C1 witness: an unsupported version was refused while the cache held a
\* table and the active version was not the default one
C1_Witness ==
  /\ ret.op = "set_tdb_version"
  /\ ret.exc = "ValueError"
  /\ tables.dict # EmptyDict
  /\ TDB_VERSION # DEFAULT_TDB_VERSION

\* C2: after any sequence of operations set_version(v) succeeds for every
\* supported v and leaves the active version v, the data directory that of
\* v and the cache of the registry's table store empty, also when v was
\* already active; every table the registry's store holds or returns
\* afterwards is the one in the active version's directory.
C2_SwitchResetsToVersion ==
  /\ ret.op = "set_tdb_version" /\ ret.arg \in Supported
       => /\ ret.exc = "none"
          /\ TDB_VERSION = ret.arg
          /\ DATA_DIR = DirOfVersion(ret.arg)
          /\ tables.dict = EmptyDict
          /\ msids = MsidView(NoMsid, tables.sid)
  /\ TDB_VERSION \in Supported /\ DATA_DIR = DirOfVersion(TDB_VERSION)
  /\ \A n \in DOMAIN tables.dict :
        /\ HasFile(DATA_DIR, n)
        /\ tables.dict[n] = TableView(FileData(DATA_DIR, n))
  /\ ret.op = "getitem" /\ ret.via = "tables" /\ ret.exc = "none"
       => ret.val = TableView(FileData(DirOfVersion(TDB_VERSION), ret.arg))

\* C2 witness: the registry was switched to the version that was already
\* active, and the tables cached before the switch (kept by the caller) are
\* not in the new table store
C2_Witness ==
  /\ ret.op = "set_tdb_version"
  /\ ret.exc = "none"
  /\ heldStore.k = "stale"
  /\ heldStore.version = ret.arg
  /\ heldStore.sid + 1 = tables.sid
  /\ heldStore.dict # EmptyDict
  /\ tables.dict = EmptyDict

\* C3: in every reachable state, every name keys() lists under the active
\* version can be looked up, through the registry's store or a kept one,
\* cached or not, and the view it gives has a non-empty colnames.
C3_ListedNamesLoad ==
  /\ \A via \in Vias, name \in TableDict_keys(DATA_DIR) :
        (via = "held" => heldStore.k # "none")
          => LET r == TableDict_getitem(DictOf(via), name, DATA_DIR)
             IN /\ r.exc = "none"
                /\ r.val.kind = "TableView"
                /\ Len(TableView_colnames(r.val)) > 0
  /\ ret.op = "getitem" /\ ret.arg \in TableDict_keys(DATA_DIR)
       => /\ ret.exc = "none"
          /\ Len(TableView_colnames(ret.val)) > 0
  /\ ret.op = "keys" => ret.val.items = TableDict_keys(DATA_DIR)

\* C3 witness: a listed name was looked up and came from the cache, while
\* another listed name is not cached yet
C3_Witness ==
  /\ ret.op = "getitem"
  /\ ret.exc = "none"
  /\ ret.loads = 0
  /\ ret.arg \in TableDict_keys(DATA_DIR)
  /\ \E other \in TableDict_keys(DATA_DIR) : other \notin DOMAIN tables.dict

\* C4: a lookup of a name that is not cached loads the file: with no file
\* in the active data directory it fails with the unknown-table error
\* (KeyError) and leaves every cache as it was, so that the name stays
\* uncached and each later lookup loads again; with the file there (after
\* a switch to a version that has it) it succeeds with that file's table.
C4_MissingTableNotCached ==
  [][(/\ ret.op = "idle"
      /\ ret'.op = "getitem"
      /\ ret'.arg \notin DOMAIN DictOf(ret'.via))
     => /\ ret'.loads = 1
        /\ IF HasFile(DATA_DIR, ret'.arg)
             THEN /\ ret'.exc = "none"
                  /\ ret'.val = TableView(FileData(DATA_DIR, ret'.arg))
             ELSE /\ ret'.exc = "KeyError"
                  /\ UNCHANGED <<tables, heldStore>>]_vars

\* C4 witness: a table that other versions have is looked up under a
\* version without it, through a store that holds other tables
C4_Witness ==
  /\ ret.op = "getitem"
  /\ ret.arg = TPP
  /\ ret.exc = "KeyError"
  /\ DictOf(ret.via) # EmptyDict
  /\ ret.arg \notin DOMAIN DictOf(ret.via)

\* C9: a table store is append-only and write-once per key: a lookup of a
\* cached name returns the cached view without a load and changes no
\* cache, no step removes or replaces an entry of the registry's store or
\* of a kept store, the registry's store is replaced only by a successful
\* set_version, and keys() loads nothing, changes no cache and lists the
\* files of the data directory whatever is cached.
C9_CacheWriteOnce ==
  [][/\ (/\ ret.op = "idle"
         /\ ret'.op = "getitem"
         /\ ret'.arg \in DOMAIN DictOf(ret'.via))
        => /\ ret'.exc = "none"
           /\ ret'.val = DictOf(ret'.via)[ret'.arg]
           /\ ret'.loads = 0
           /\ UNCHANGED <<tables, heldStore>>
     /\ tables'.sid = tables.sid
        => \A n \in DOMAIN tables.dict :
              n \in DOMAIN tables'.dict /\ tables'.dict[n] = tables.dict[n]
     /\ tables'.sid # tables.sid
        => ret'.op = "set_tdb_version" /\ ret'.exc = "none"
     /\ (heldStore.k = "stale" /\ heldStore'.k = "stale")
        => /\ heldStore'.sid = heldStore.sid
           /\ \A n \in DOMAIN heldStore.dict :
                 /\ n \in DOMAIN heldStore'.dict
                 /\ heldStore'.dict[n] = heldStore.dict[n]
     /\ (ret.op = "idle" /\ ret'.op = "keys")
        => /\ UNCHANGED <<tables, heldStore>>
           /\ ret'.loads = 0
           /\ ret'.val.items =
                {SubSeq(f, 1, Len(f) - 4) :
                   f \in {g \in DOMAIN FS[DATA_DIR] :
                            /\ Len(g) > 4
                            /\ SubSeq(g, Len(g) - 3, Len(g)) = NPY}}
    ]_vars

\* C9 witness: a kept store returned, without a load, a table cached under
\* an earlier version that differs from the file of the active version
C9_Witness ==
  /\ ret.op = "getitem"
  /\ ret.via = "held"
  /\ heldStore.k = "stale"
  /\ ret.exc = "none"
  /\ ret.loads = 0
  /\ HasFile(DATA_DIR, ret.arg)
  /\ ret.val # TableView(FileData(DATA_DIR, ret.arg))

\* the rows of a table with the MSID code m, in the table's order
RowsFor(data, m) ==
  LET k == CHOOSE i \in 1..Len(data.names) : data.names[i] = COL_MSID
  IN SelectSeq(data.rows, LAMBDA r : r[k] = m)

\* the MSID codes of the canonical description table of a directory
MsidCodes(dir) ==
  LET data == FileData(dir, TMSRMENT)
      k == CHOOSE i \in 1..Len(data.names) : data.names[i] = COL_MSID
  IN {data.rows[i][k] : i \in 1..Len(data.rows)}

\* what the per-table property of a view is to give for table t of a
\* directory: the whole table for the unbound view, else the rows of the
\* view's MSID, a single row unwrapped, and "no value" when there are none
ExpectedTable(dir, t, msid) ==
  LET data == FileData(dir, t)
      rows == RowsFor(data, upper(msid))
  IN IF msid = NoMsid THEN TableView(data)
     ELSE IF rows = <<>> THEN None
     ELSE IF Len(rows) = 1
       THEN TableView([kind |-> "record", names |-> data.names,
                       rows |-> rows])
     ELSE TableView(Array(data.names, rows))

\* C5 as stated: lookup(key) fails with the unknown-MSID error (KeyError)
\* exactly when upper(key) is no MSID code of the canonical description
\* table, and the view it returns is bound to the upper-cased code.
C5_LookupBindsNormalizedCode ==
  ret.op = "msid_getitem"
    => /\ ret.exc = "KeyError" <=> upper(ret.arg) \notin MsidCodes(DATA_DIR)
       /\ ret.exc = "none" => ret.val._msid = upper(ret.arg)

\* C5 amended: lookup(key) fails with the unknown-MSID error exactly when
\* upper(key) is no MSID code of the canonical description table; the view
\* it returns is bound to the key as it was passed, and its msid property
\* and its per-table properties give the upper-cased code and the rows of
\* the upper-cased code, whatever the case of the key.
C5_LookupCaseInsensitive ==
  ret.op = "msid_getitem"
    => /\ ret.exc = "KeyError" <=> upper(ret.arg) \notin MsidCodes(DATA_DIR)
       /\ ret.exc \in {"none", "KeyError"}
       /\ ret.exc = "none"
            => /\ ret.val = MsidView(ret.arg, 0)
               /\ get_tmsrment_func(lower(COL_MSID), ret.val, tables.dict,
                                    DATA_DIR).val = Scalar(upper(ret.arg))
               /\ \A t \in {TMSRMENT, TSC} :
                     \A r \in get_table_func(t, ret.val, tables.dict,
                                             DATA_DIR) :
                        r.val = ExpectedTable(DATA_DIR, t, upper(ret.arg))

\* C5 witness: a key that is not upper-cased was looked up through a kept
\* bound view and found
C5_Witness ==
  /\ ret.op = "msid_getitem"
  /\ ret.via = "held"
  /\ ret.exc = "none"
  /\ ret.arg # upper(ret.arg)
  /\ ret.arg # lower(ret.arg)

\* C6: the per-table property of an MsidView, for a table the active data
\* directory has, gives the whole table when the view is unbound; when the
\* view is bound to m it gives the view of exactly the rows whose MSID is
\* upper(m), and "no value" (None), never an empty view or an error, when
\* there are none.
C6_TableAccessor ==
  (ret.op = "msid_table" /\ HasFile(DATA_DIR, ret.arg))
    => /\ ret.exc = "none"
       /\ ret.val = ExpectedTable(DATA_DIR, ret.arg, SelfOf(ret.via)._msid)

\* C6 witness: a kept view bound to a code of the description table was
\* asked for a table that has no row of it, and gave None
C6_Witness ==
  /\ ret.op = "msid_table"
  /\ ret.via = "held"
  /\ held._msid # NoMsid
  /\ upper(held._msid) \in MsidCodes(DATA_DIR)
  /\ HasFile(DATA_DIR, ret.arg)
  /\ ret.exc = "none"
  /\ ret.val = None

\* C7: filtering the view of a table with an MSID column by an MSID gives
\* the view of the matching rows, in single-row form when exactly one row
\* matches; a column lookup gives a bare scalar on the single-row form and
\* a collection with one value per row otherwise; and row_count (len) is
\* the number of matching rows, 1 for the single-row form.
C7_SingleRowForm ==
  /\ (/\ ret.op = "view_getitem"
      /\ held.data.kind = "array"
      /\ COL_MSID \in SeqToSet(held.data.names)
      /\ upper(ret.arg) \notin SeqToSet(held.data.names))
       => LET rows == RowsFor(held.data, upper(ret.arg))
          IN /\ ret.exc = "none"
             /\ ret.val =
                  TableView([kind |-> IF Len(rows) = 1 THEN "record"
                                      ELSE "array",
                             names |-> held.data.names, rows |-> rows])
  /\ (/\ ret.op = "view_getitem"
      /\ upper(ret.arg) \in SeqToSet(held.data.names))
       => LET k == CHOOSE i \in 1..Len(held.data.names) :
                      held.data.names[i] = upper(ret.arg)
          IN /\ ret.exc = "none"
             /\ IF held.data.kind = "record"
                  THEN ret.val = Scalar(held.data.rows[1][k])
                  ELSE ret.val =
                         Column([i \in 1..Len(held.data.rows) |->
                                   held.data.rows[i][k]])
  /\ ret.op = "view_len" => ret.val = PyInt(Len(held.data.rows))

\* a field of a row of the canonical description table, a missing value
\* counting as the empty string
TextOf(data, row, col) ==
  LET k == CHOOSE i \in 1..Len(data.names) : data.names[i] = col
  IN IF row[k] = MASKED THEN <<>> ELSE row[k]

\* C8: find(pattern), called on the root or on a bound view, succeeds and
\* returns one bound view per row of the canonical description table of
\* the active version in which the pattern is found, case-insensitively,
\* in the MSID code, the description or the technical name, no view for
\* any other row, in the order of the rows.
C8_FindMatchesAnyField ==
  ret.op = "msid_find"
    => LET data == FileData(DATA_DIR, TMSRMENT)
           hits == SelectSeq(data.rows,
                     LAMBDA row :
                       \/ re_search(ret.arg, TextOf(data, row, COL_MSID))
                       \/ re_search(ret.arg,
                                    TextOf(data, row, COL_DESCRIPTION))
                       \/ re_search(ret.arg,
                                    TextOf(data, row, COL_TECHNICAL_NAME)))
       IN /\ ret.exc = "none"
          /\ ret.val =
               List([i \in 1..Len(hits) |->
                       MsidView(TextOf(data, hits[i], COL_MSID), 0)])

\* C8 witness: find through a kept bound view returned the first and the
\* third row, the third one found by its technical name alone, and not the
\* second
C8_Witness ==
  /\ ret.op = "msid_find"
  /\ ret.via = "held"
  /\ held._msid # NoMsid
  /\ ret.arg = <<"a", "B">>
  /\ ret.exc = "none"
  /\ ret.val = List(<<MsidView(<<"A", "A">>, 0), MsidView(<<"C", "B">>, 0)>>)

\* what a table store answers for a name when it reads the files of dir
StoreAnswers(dir) ==
  /\ ret.exc = "KeyError" <=> ~HasFile(dir, ret.arg)
  /\ ret.exc = "none" => ret.val = TableView(FileData(dir, ret.arg))

\* what the per-table property of an MsidView bound to msid answers when
\* it reads the files of dir
ViewAnswers(dir, msid) ==
  /\ ret.exc = "KeyError" <=> ~HasFile(dir, ret.arg)
  /\ ret.exc = "none" => ret.val = ExpectedTable(dir, ret.arg, msid)

\* C10 as stated: a kept table store and a kept bound MsidView answer from
\* the data of the version that was active when they were obtained, never
\* from the directory of the new version, and the tables and the root of
\* the registry answer from the active version.
C10_HeldHandlesAnswerFromOldVersion ==
  /\ (ret.op = "getitem" /\ ret.via = "held" /\ heldStore.k = "stale")
       => StoreAnswers(DirOfVersion(heldStore.version))
  /\ (ret.op = "msid_table" /\ ret.via = "held" /\ held._msid # NoMsid)
       => ViewAnswers(DirOfVersion(heldVersion), held._msid)
  /\ (ret.op = "getitem" /\ ret.via = "tables")
       => StoreAnswers(DirOfVersion(TDB_VERSION))
  /\ (ret.op = "msid_table" /\ ret.via = "msids")
       => ViewAnswers(DirOfVersion(TDB_VERSION), NoMsid)

\* C10 amended: a successful set_version leaves the kept view as it was
\* and leaves the kept table store with the entries it had cached, the
\* registry getting a fresh, empty store; afterwards the kept store
\* answers a name it has cached from its cache without reading a file and
\* any other name from the directory of the active version, caching it;
\* a kept TableView answers from the rows it holds; a kept bound MsidView
\* answers from the directory of the active version; the tables and the
\* root of the registry answer from the active version.
C10_HeldHandlesAfterSwitch ==
  [][/\ (ret'.op = "set_tdb_version" /\ ret'.exc = "none")
          => /\ held' = held
             /\ heldStore'.dict = DictOf("held")
             /\ heldStore.k # "none" => heldStore'.k = "stale"
             /\ tables'.dict = EmptyDict
     /\ (ret'.op = "getitem" /\ ret'.via = "held" /\ heldStore.k = "stale")
          => IF ret'.arg \in DOMAIN heldStore.dict
               THEN /\ ret'.exc = "none"
                    /\ ret'.val = heldStore.dict[ret'.arg]
                    /\ ret'.loads = 0
                    /\ heldStore' = heldStore
               ELSE /\ ret'.exc = "KeyError" <=> ~HasFile(DATA_DIR, ret'.arg)
                    /\ ret'.exc = "none"
                         => /\ ret'.val =
                                 TableView(FileData(DATA_DIR, ret'.arg))
                            /\ ret'.arg \in DOMAIN heldStore'.dict
                            /\ heldStore'.dict[ret'.arg] = ret'.val
     /\ (ret'.op = "view_getitem")
          => /\ held' = held
             /\ ret'.exc = "none"
                  => \A i \in 1..Len(ret'.val.data.rows) :
                        \E j \in 1..Len(held.data.rows) :
                           ret'.val.data.rows[i] = held.data.rows[j]
     /\ (ret'.op = "msid_table" /\ ret'.via = "held"
           /\ held._msid # NoMsid)
          => /\ ret'.exc = "KeyError" <=> ~HasFile(DATA_DIR, ret'.arg)
             /\ ret'.exc = "none"
                  => ret'.val = ExpectedTable(DATA_DIR, ret'.arg, held._msid)
     /\ (ret'.op = "getitem" /\ ret'.via = "tables")
          => /\ ret'.exc = "KeyError" <=> ~HasFile(DATA_DIR, ret'.arg)
             /\ ret'.exc = "none"
                  => ret'.val = TableView(FileData(DATA_DIR, ret'.arg))
     /\ (ret'.op = "msid_table" /\ ret'.via = "msids")
          => /\ ret'.exc = "KeyError" <=> ~HasFile(DATA_DIR, ret'.arg)
             /\ ret'.exc = "none"
                  => ret'.val = ExpectedTable(DATA_DIR, ret'.arg, NoMsid)
    ]_vars

\* C10 witness: a view bound under one version and kept across a switch was
\* asked for a table and answered from the files of the new version, which
\* differ for its MSID from those of the version it was obtained under
C10_Witness ==
  /\ ret.op = "msid_table"
  /\ ret.via = "held"
  /\ held._msid # NoMsid
  /\ heldVersion # TDB_VERSION
  /\ ret.exc = "none"
  /\ HasFile(DirOfVersion(heldVersion), ret.arg)
  /\ ret.val = ExpectedTable(DATA_DIR, ret.arg, held._msid)
  /\ ret.val # ExpectedTable(DirOfVersion(heldVersion), ret.arg, held._msid)

====
